---- MODULE Spec2Model ----
(***************************************************************************)
(* A model of gsea.py: scrape_gsea fetches a listing page, collects the    *)
(* detail links of its catalog table, and for each link extracts the       *)
(* metadata of the detail page, downloads and parses the gene-set TSV,     *)
(* appends one record to results, and finally writes results to a file.    *)
(*                                                                         *)
(* Text is a sequence of one-character strings, so that strip, lower,      *)
(* split, join and the substring tests are computed as Python computes     *)
(* them.  Dictionary keys (the 19 field names) are TLA+ strings.           *)
(***************************************************************************)
EXTENDS Integers, Sequences, FiniteSets, TLC

VARIABLES pc, table, detail_links, i, results, meta, tr, n_rows,
          tsv_text, tsv_case, output, fetched, failed

vars == <<pc, table, detail_links, i, results, meta, tr, n_rows,
          tsv_text, tsv_case, output, fetched, failed>>

(***************************************************************************)
(* Bounds of the model.                                                    *)
(***************************************************************************)
\* detail links on the listing page of a whole run
MaxLinks == 2
\* rows of one attribute table
MaxRows == 2
\* lines of one auxiliary payload
MaxLines == 3

(***************************************************************************)
(* Python's str methods.                                                   *)
(***************************************************************************)
TAB == "\t"
NL == "\n"
CR == "\r"
SP == " "

\* the characters str.strip() removes
Whitespace == {SP, TAB, NL, CR}

RECURSIVE LStrip(_)
LStrip(s) ==
    IF s = <<>> \/ Head(s) \notin Whitespace THEN s ELSE LStrip(Tail(s))

RECURSIVE RStrip(_)
RStrip(s) ==
    IF s = <<>> \/ s[Len(s)] \notin Whitespace THEN s
    ELSE RStrip(SubSeq(s, 1, Len(s) - 1))

\* s.strip()
Strip(s) == RStrip(LStrip(s))

UpperLetters == <<"A", "B", "C", "D", "E", "F", "G", "H", "I", "J", "K", "L", "M", "N", "O", "P", "Q", "R", "S", "T", "U", "V", "W", "X", "Y", "Z">>
LowerLetters == <<"a", "b", "c", "d", "e", "f", "g", "h", "i", "j", "k", "l", "m", "n", "o", "p", "q", "r", "s", "t", "u", "v", "w", "x", "y", "z">>

LowerChar(c) ==
    IF \E k \in 1..Len(UpperLetters) : UpperLetters[k] = c
    THEN LowerLetters[CHOOSE k \in 1..Len(UpperLetters) : UpperLetters[k] = c]
    ELSE c

\* s.lower()
Lower(s) == [k \in 1..Len(s) |-> LowerChar(s[k])]

\* needle in s
In(needle, s) ==
    \E k \in 1..(Len(s) - Len(needle) + 1) :
        SubSeq(s, k, k + Len(needle) - 1) = needle

\* s.find(needle): the 0-based index of the first occurrence, or -1
Find(s, needle) ==
    IF In(needle, s)
    THEN (CHOOSE k \in 1..(Len(s) - Len(needle) + 1) :
              /\ SubSeq(s, k, k + Len(needle) - 1) = needle
              /\ \A j \in 1..(k - 1) : SubSeq(s, j, j + Len(needle) - 1) # needle) - 1
    ELSE -1

\* s.split(sep) for a one-character sep: never empty, the empty text gives one empty part
RECURSIVE SplitFrom(_, _, _)
SplitFrom(s, sep, cur) ==
    IF s = <<>> THEN <<cur>>
    ELSE IF Head(s) = sep THEN <<cur>> \o SplitFrom(Tail(s), sep, <<>>)
    ELSE SplitFrom(Tail(s), sep, Append(cur, Head(s)))

Split(s, sep) == SplitFrom(s, sep, <<>>)

\* s.split(sep, 1): split at the first sep only
SplitOnce(s, sep) ==
    IF \E k \in 1..Len(s) : s[k] = sep
    THEN LET k == CHOOSE k \in 1..Len(s) :
                      s[k] = sep /\ \A j \in 1..(k - 1) : s[j] # sep
         IN  <<SubSeq(s, 1, k - 1), SubSeq(s, k + 1, Len(s))>>
    ELSE <<s>>

\* sep.join(parts)
RECURSIVE Join(_, _)
Join(sep, parts) ==
    IF parts = <<>> THEN <<>>
    ELSE IF Len(parts) = 1 THEN parts[1]
    ELSE parts[1] \o sep \o Join(sep, Tail(parts))

\* s.replace(old, new) for a non-empty old
RECURSIVE Replace(_, _, _)
Replace(s, old, new) ==
    IF Len(s) < Len(old) THEN s
    ELSE IF SubSeq(s, 1, Len(old)) = old
         THEN new \o Replace(SubSeq(s, Len(old) + 1, Len(s)), old, new)
         ELSE <<Head(s)>> \o Replace(Tail(s), old, new)

(***************************************************************************)
(* match_paren: the search in value of the pattern  any text, an opening   *)
(* parenthesis, any text, a closing parenthesis.  A dot matches any        *)
(* character but a newline, both groups are greedy, and the leftmost       *)
(* start wins.                                                             *)
(***************************************************************************)
NoNewline(s, a, b) == \A k \in a..b : s[k] # NL

\* a match that starts at p, with the opening parenthesis at q and the closing one at r
ParenMatchAt(s, p, q, r) ==
    /\ p <= q /\ q < r /\ r <= Len(s)
    /\ s[q] = "(" /\ s[r] = ")"
    /\ NoNewline(s, p, q - 1)
    /\ NoNewline(s, q + 1, r - 1)

ParenStarts(s) ==
    {p \in 1..Len(s) : \E q \in p..Len(s), r \in p..Len(s) : ParenMatchAt(s, p, q, r)}

Min(S) == CHOOSE x \in S : \A y \in S : x <= y
Max(S) == CHOOSE x \in S : \A y \in S : x >= y

\* a slip: a lazy first group, which stops at the first opening parenthesis
SearchParenLazy(s) ==
    IF ParenStarts(s) = {} THEN [matched |-> FALSE, group1 |-> <<>>, group2 |-> <<>>]
    ELSE LET p == Min(ParenStarts(s))
             q == Min({x \in p..Len(s) : \E r \in x..Len(s) : ParenMatchAt(s, p, x, r)})
             r == Max({x \in q..Len(s) : ParenMatchAt(s, p, q, x)})
         IN  [matched |-> TRUE,
              group1 |-> SubSeq(s, p, q - 1),
              group2 |-> SubSeq(s, q + 1, r - 1)]

\* [matched, group1, group2] as match_paren.group(1) and group(2)
SearchParen(s) ==
    IF ParenStarts(s) = {} THEN [matched |-> FALSE, group1 |-> <<>>, group2 |-> <<>>]
    ELSE LET p == Min(ParenStarts(s))
             q == Max({x \in p..Len(s) : \E r \in x..Len(s) : ParenMatchAt(s, p, x, r)})
             r == Max({x \in q..Len(s) : ParenMatchAt(s, p, q, x)})
         IN  [matched |-> TRUE,
              group1 |-> SubSeq(s, p, q - 1),
              group2 |-> SubSeq(s, q + 1, r - 1)]

(***************************************************************************)
(* The parse tree of the listing page.  A node is a cell (td) with child   *)
(* nodes or an anchor (a), which has an href attribute or not.             *)
(***************************************************************************)
Anchor(h) == [tag |-> "a", has_href |-> TRUE, href |-> h, kids |-> <<>>]
AnchorNoHref == [tag |-> "a", has_href |-> FALSE, href |-> <<>>, kids |-> <<>>]
Td(kids) == [tag |-> "td", has_href |-> FALSE, href |-> <<>>, kids |-> kids]

\* node.find_all("td"): every td below the node, in document order
RECURSIVE FindAllTd(_)
FindAllTd(nodes) ==
    IF nodes = <<>> THEN <<>>
    ELSE LET n == Head(nodes)
         IN  (IF n.tag = "td" THEN <<n>> ELSE <<>>)
             \o FindAllTd(n.kids) \o FindAllTd(Tail(nodes))

\* td.find_all("a", href=True): every anchor with an href below the node
RECURSIVE FindAllA(_)
FindAllA(nodes) ==
    IF nodes = <<>> THEN <<>>
    ELSE LET n == Head(nodes)
         IN  (IF n.tag = "a" /\ n.has_href THEN <<n>> ELSE <<>>)
             \o FindAllA(n.kids) \o FindAllA(Tail(nodes))

BaseUrl == <<"h", "t", "t", "p", "s", ":", "/", "/", "w", "w", "w", ".", "g", "s", "e", "a", "-", "m", "s", "i", "g", "d", "b", ".", "o", "r", "g", "/", "g", "s", "e", "a", "/">>

\* the inner loop: one full_url appended per link_tag of the cell
RECURSIVE AppendLinks(_, _)
AppendLinks(links, link_tags) ==
    IF link_tags = <<>> THEN links
    ELSE AppendLinks(Append(links, BaseUrl \o Head(link_tags).href), Tail(link_tags))

\* the outer loop over table.find_all("td")
RECURSIVE LinkLoop(_, _)
LinkLoop(links, tds) ==
    IF tds = <<>> THEN links
    ELSE LinkLoop(AppendLinks(links, FindAllA(Head(tds).kids)), Tail(tds))

CollectLinks(tbl) == LinkLoop(<<>>, FindAllTd(tbl))

(***************************************************************************)
(* The record of one gene set.                                             *)
(***************************************************************************)
fieldnames ==
    << "STANDARD_NAME", "SYSTEMATIC_NAME", "COLLECTION", "MSIGDB_URL",
       "NAMESPACE", "DESCRIPTION_BRIEF", "DESCRIPTION_FULL", "PMID", "GEOID",
       "AUTHORS", "CONTRIBUTOR", "CONTRIBUTOR_ORG", "EXACT_SOURCE",
       "FILTERED_BY_SIMILARITY", "EXTERNAL_NAMES_FOR_SIMILAR_TERMS",
       "EXTERNAL_DETAILS_URL", "SOURCE_MEMBERS", "GENE_SYMBOLS",
       "FOUNDER_NAMES" >>

FieldSet == {fieldnames[k] : k \in 1..Len(fieldnames)}

\* meta = {fn: "" for fn in fieldnames}; meta["MSIGDB_URL"] = detail_url
InitMeta(detail_url) ==
    [fn \in FieldSet |-> IF fn = "MSIGDB_URL" THEN detail_url ELSE <<>>]

(***************************************************************************)
(* One row of the attribute table.  th_strings and td_strings are the text *)
(* nodes of the first th and the first td of the row; pubmed_text is the   *)
(* text of the first anchor of the td whose href matches pubmed.           *)
(***************************************************************************)
Row(has_th, th_strings, has_td, td_strings, has_pubmed, pubmed_text) ==
    [has_th |-> has_th, th_strings |-> th_strings,
     has_td |-> has_td, td_strings |-> td_strings,
     has_pubmed |-> has_pubmed, pubmed_text |-> pubmed_text]

RECURSIVE StrippedStrings(_)
StrippedStrings(strings) ==
    IF strings = <<>> THEN <<>>
    ELSE (IF Strip(Head(strings)) = <<>> THEN <<>> ELSE <<Strip(Head(strings))>>)
         \o StrippedStrings(Tail(strings))

\* tag.get_text(sep, strip=True): the stripped, non-empty strings joined by sep
GetText(strings, sep) == Join(sep, StrippedStrings(strings))

\* the branch of a source publication row
SourcePublication(m, value, row) ==
    LET m1 == IF row.has_pubmed
              THEN [m EXCEPT !["PMID"] =
                       Strip(Replace(Strip(row.pubmed_text), <<"P", "u", "b", "m", "e", "d">>, <<>>))]
              ELSE m
        authors_idx == Find(Lower(value), <<"a", "u", "t", "h", "o", "r", "s", ":">>)
    IN  IF authors_idx # -1
        THEN [m1 EXCEPT !["AUTHORS"] =
                 Strip(SubSeq(value, authors_idx + 1 + Len(<<"a", "u", "t", "h", "o", "r", "s", ":">>), Len(value)))]
        ELSE m1

\* the branch of a contributed by row
ContributedBy(m, value) ==
    LET match_paren == SearchParen(value)
    IN  IF match_paren.matched
        THEN [m EXCEPT !["CONTRIBUTOR"] = Strip(match_paren.group1),
                       !["CONTRIBUTOR_ORG"] = Strip(match_paren.group2)]
        ELSE [m EXCEPT !["CONTRIBUTOR"] = value]

\* the elif chain from its second test on
DispatchRest(m, label, value, row) ==
    IF In(<<"s", "y", "s", "t", "e", "m", "a", "t", "i", "c", " ", "n", "a", "m", "e">>, label) THEN [m EXCEPT !["SYSTEMATIC_NAME"] = value]
    ELSE IF In(<<"c", "o", "l", "l", "e", "c", "t", "i", "o", "n">>, label)
         THEN [m EXCEPT !["COLLECTION"] = Replace(value, <<NL>>, <<SP>>)]
    ELSE IF In(<<"i", "d", "e", "n", "t", "i", "f", "i", "e", "r", " ", "n", "a", "m", "e", "s", "p", "a", "c", "e">>, label) \/ In(<<"s", "o", "u", "r", "c", "e", " ", "p", "l", "a", "t", "f", "o", "r", "m">>, label)
         THEN [m EXCEPT !["NAMESPACE"] = value]
    ELSE IF In(<<"b", "r", "i", "e", "f", " ", "d", "e", "s", "c", "r", "i", "p", "t", "i", "o", "n">>, label) THEN [m EXCEPT !["DESCRIPTION_BRIEF"] = value]
    ELSE IF In(<<"f", "u", "l", "l", " ", "d", "e", "s", "c", "r", "i", "p", "t", "i", "o", "n">>, label) THEN [m EXCEPT !["DESCRIPTION_FULL"] = value]
    ELSE IF In(<<"s", "o", "u", "r", "c", "e", " ", "p", "u", "b", "l", "i", "c", "a", "t", "i", "o", "n">>, label) THEN SourcePublication(m, value, row)
    ELSE IF In(<<"e", "x", "a", "c", "t", " ", "s", "o", "u", "r", "c", "e">>, label) THEN [m EXCEPT !["EXACT_SOURCE"] = value]
    ELSE IF In(<<"f", "i", "l", "t", "e", "r", "e", "d", " ", "b", "y", " ", "s", "i", "m", "i", "l", "a", "r", "i", "t", "y">>, label)
         THEN [m EXCEPT !["FILTERED_BY_SIMILARITY"] = value]
    ELSE IF In(<<"e", "x", "t", "e", "r", "n", "a", "l", " ", "l", "i", "n", "k", "s">>, label) THEN [m EXCEPT !["EXTERNAL_DETAILS_URL"] = value]
    ELSE IF In(<<"c", "o", "n", "t", "r", "i", "b", "u", "t", "e", "d", " ", "b", "y">>, label) THEN ContributedBy(m, value)
    ELSE IF In(<<"f", "o", "u", "n", "d", "e", "r">>, label) THEN [m EXCEPT !["FOUNDER_NAMES"] = value]
    ELSE m

\* a slip: independent ifs, so a later rule fires after the first one
DispatchFallThrough(m, label, value, row) ==
    DispatchRest(IF In(<<"s", "t", "a", "n", "d", "a", "r", "d", " ", "n", "a", "m", "e">>, label)
                 THEN [m EXCEPT !["STANDARD_NAME"] = value] ELSE m,
                 label, value, row)

\* the whole elif chain on the lower-cased label
Dispatch(m, label, value, row) ==
    IF In(<<"s", "t", "a", "n", "d", "a", "r", "d", " ", "n", "a", "m", "e">>, label) THEN [m EXCEPT !["STANDARD_NAME"] = value]
    ELSE DispatchRest(m, label, value, row)

\* the body of the loop over the rows of the attribute table
ApplyRow(m, row) ==
    IF ~row.has_th \/ ~row.has_td THEN m
    ELSE Dispatch(m, Lower(GetText(row.th_strings, <<>>)),
                  GetText(row.td_strings, <<SP>>), row)

(***************************************************************************)
(* The parser of the auxiliary payload.                                    *)
(***************************************************************************)
\* a slip: either token is enough
IsRowBasedEither(header_line) ==
    In(<<"g", "e", "n", "e", "_", "s", "y", "m", "b", "o", "l">>, header_line) \/ In(<<"g", "e", "n", "e", "_", "i", "d">>, header_line)

\* the test of Case A on the lower-cased first line
IsRowBased(header_line) ==
    In(<<"g", "e", "n", "e", "_", "s", "y", "m", "b", "o", "l">>, header_line) /\ In(<<"g", "e", "n", "e", "_", "i", "d">>, header_line)

\* a slip: the line is split without being stripped first
RowLineUnstripped(acc, line) ==
    LET parts == Split(line, TAB)
    IN  IF Len(parts) >= 2
        THEN [gene_symbols |-> Append(acc.gene_symbols, Strip(parts[1])),
              gene_ids |-> Append(acc.gene_ids, Strip(parts[2]))]
        ELSE acc

\* one data line of Case A
RowLine(acc, line) ==
    LET parts == Split(Strip(line), TAB)
    IN  IF Len(parts) >= 2
        THEN [gene_symbols |-> Append(acc.gene_symbols, Strip(parts[1])),
              gene_ids |-> Append(acc.gene_ids, Strip(parts[2]))]
        ELSE acc

\* for idx, line in enumerate(lines): idx is 0-based and the header is skipped
RECURSIVE RowLoop(_, _, _)
RowLoop(lines, idx, acc) ==
    IF idx >= Len(lines) THEN acc
    ELSE IF idx = 0 THEN RowLoop(lines, idx + 1, acc)
    ELSE RowLoop(lines, idx + 1, RowLine(acc, lines[idx + 1]))

\* Case A: row-based format
ParseRowBased(m, lines) ==
    LET acc == RowLoop(lines, 0, [gene_symbols |-> <<>>, gene_ids |-> <<>>])
    IN  [m EXCEPT !["GENE_SYMBOLS"] = Join(<<",">>, acc.gene_symbols),
                  !["SOURCE_MEMBERS"] = Join(<<",">>, acc.gene_ids)]

\* a slip: the line is split at every tab, so a value with a tab is dropped
KvLineSplitAll(m, line) ==
    IF Strip(line) = <<>> THEN m
    ELSE LET kv_parts == Split(line, TAB)
         IN  IF Len(kv_parts) # 2 THEN m
             ELSE LET key == Strip(kv_parts[1])
                      val == Strip(kv_parts[2])
                  IN  IF key = <<"G", "E", "N", "E", "_", "S", "Y", "M", "B", "O", "L", "S">> THEN [m EXCEPT !["GENE_SYMBOLS"] = val]
                      ELSE IF key = <<"S", "O", "U", "R", "C", "E", "_", "M", "E", "M", "B", "E", "R", "S">>
                           THEN [m EXCEPT !["SOURCE_MEMBERS"] = val]
                      ELSE m

\* a slip: a line keyed by another field of the record is stored too
KvLineAnyField(m, line) ==
    IF Strip(line) = <<>> THEN m
    ELSE LET kv_parts == SplitOnce(line, TAB)
         IN  IF Len(kv_parts) # 2 THEN m
             ELSE LET key == Strip(kv_parts[1])
                      val == Strip(kv_parts[2])
                  IN  IF key = <<"G", "E", "N", "E", "_", "S", "Y", "M", "B", "O", "L", "S">> THEN [m EXCEPT !["GENE_SYMBOLS"] = val]
                      ELSE IF key = <<"S", "O", "U", "R", "C", "E", "_", "M", "E", "M", "B", "E", "R", "S">>
                           THEN [m EXCEPT !["SOURCE_MEMBERS"] = val]
                      ELSE IF key = <<"M", "S", "I", "G", "D", "B", "_", "U", "R", "L">> THEN [m EXCEPT !["MSIGDB_URL"] = val]
                      ELSE m

\* one line of Case B
KvLine(m, line) ==
    IF Strip(line) = <<>> THEN m
    ELSE LET kv_parts == SplitOnce(line, TAB)
         IN  IF Len(kv_parts) # 2 THEN m
             ELSE LET key == Strip(kv_parts[1])
                      val == Strip(kv_parts[2])
                  IN  IF key = <<"G", "E", "N", "E", "_", "S", "Y", "M", "B", "O", "L", "S">> THEN [m EXCEPT !["GENE_SYMBOLS"] = val]
                      ELSE IF key = <<"S", "O", "U", "R", "C", "E", "_", "M", "E", "M", "B", "E", "R", "S">>
                           THEN [m EXCEPT !["SOURCE_MEMBERS"] = val]
                      ELSE m

\* Case B: key-value format
RECURSIVE ParseKeyValue(_, _)
ParseKeyValue(m, lines) ==
    IF lines = <<>> THEN m ELSE ParseKeyValue(KvLine(m, Head(lines)), Tail(lines))

\* lines = tsv_resp.text.strip().split("\n")
TsvLines(text) == Split(Strip(text), NL)

\* the parse of a fetched payload: the record, and the case that was taken
ParseTsv(m, text) ==
    LET lines == TsvLines(text)
    IN  IF lines = <<>> THEN [meta |-> m, case |-> "empty"]
        ELSE IF IsRowBased(Lower(lines[1]))
             THEN [meta |-> ParseRowBased(m, lines), case |-> "A"]
             ELSE [meta |-> ParseKeyValue(m, lines), case |-> "B"]

(***************************************************************************)
(* The run.  A response is what requests.get returns: ok says whether      *)
(* raise_for_status passes.                                                *)
(***************************************************************************)
BrowseResp(ok, has_table, tbl) == [ok |-> ok, has_table |-> has_table, table |-> tbl]
DetailResp(ok, has_table) == [ok |-> ok, has_table |-> has_table]
TsvResp(ok, text) == [ok |-> ok, text |-> text]

\* a slip: the status of the response is not checked
NeverRaises(resp) == FALSE

\* resp.raise_for_status() raises
RaisesForStatus(resp) == ~resp.ok

\* a slip: continue without results.append(meta)
SkipNoTsv(res, m) == res

\* results.append(meta) when the detail page has no TSV link
AppendNoTsv(res, m) == Append(res, m)

\* a slip: the record of a parsed payload is not saved
SkipRecord(res, m) == res

\* results.append(meta) after the payload was parsed
AppendRecord(res, m) == Append(res, m)

NoMeta == [fn \in FieldSet |-> <<>>]
NoRow == Row(FALSE, <<>>, FALSE, <<>>, FALSE, <<>>)
NoOutput == [written |-> FALSE, header |-> <<>>, rows |-> <<>>]

\* writer.writeheader() and one writer.writerow(entry) per entry, in column order
WrittenFile(res) ==
    [written |-> TRUE,
     header |-> fieldnames,
     rows |-> [k \in 1..Len(res) |-> [c \in 1..Len(fieldnames) |-> res[k][fieldnames[c]]]]]

Init ==
    /\ pc = "start"
    /\ table = <<>>
    /\ detail_links = <<>>
    /\ i = 1
    /\ results = <<>>
    /\ meta = NoMeta
    /\ tr = NoRow
    /\ n_rows = 0
    /\ tsv_text = <<>>
    /\ tsv_case = "none"
    /\ output = NoOutput
    /\ fetched = <<>>
    /\ failed = FALSE

\* the listing page is fetched and the links of its catalog table are collected
FetchBrowse(resp) ==
    /\ pc = "start"
    /\ fetched' = Append(fetched, "browse")
    /\ failed' = (failed \/ ~resp.ok)
    /\ IF RaisesForStatus(resp)
       THEN pc' = "raised" /\ UNCHANGED <<table, detail_links>>
       ELSE IF ~resp.has_table
            THEN pc' = "returned" /\ UNCHANGED <<table, detail_links>>
            ELSE /\ table' = resp.table
                 /\ detail_links' = CollectLinks(resp.table)
                 /\ pc' = "loop"
    /\ UNCHANGED <<i, results, meta, tr, n_rows, tsv_text, tsv_case, output>>

\* the next detail page is fetched and its record is initialised
FetchDetail(resp) ==
    /\ pc = "loop"
    /\ i <= Len(detail_links)
    /\ fetched' = Append(fetched, "detail")
    /\ failed' = (failed \/ ~resp.ok)
    /\ IF RaisesForStatus(resp)
       THEN pc' = "raised" /\ UNCHANGED <<meta, tr, n_rows, tsv_text, tsv_case>>
       ELSE /\ meta' = InitMeta(detail_links[i])
            /\ tr' = NoRow
            /\ n_rows' = 0
            /\ tsv_text' = <<>>
            /\ tsv_case' = "none"
            /\ pc' = IF resp.has_table THEN "rows" ELSE "resolve_tsv"
    /\ UNCHANGED <<table, detail_links, i, results, output>>

\* one row of the attribute table
ProcessRow(row) ==
    /\ pc = "rows"
    /\ n_rows < MaxRows
    /\ tr' = row
    /\ n_rows' = n_rows + 1
    /\ meta' = ApplyRow(meta, row)
    /\ UNCHANGED <<pc, table, detail_links, i, results, tsv_text, tsv_case,
                   output, fetched, failed>>

\* the attribute table has no more rows
EndRows ==
    /\ pc = "rows"
    /\ pc' = "resolve_tsv"
    /\ UNCHANGED <<table, detail_links, i, results, meta, tr, n_rows, tsv_text,
                   tsv_case, output, fetched, failed>>

\* the TSV link is looked up; without one the record is saved as it is
ResolveTsv(has_link) ==
    /\ pc = "resolve_tsv"
    /\ IF has_link
       THEN pc' = "fetch_tsv" /\ UNCHANGED <<results, i>>
       ELSE /\ results' = AppendNoTsv(results, meta)
            /\ i' = i + 1
            /\ pc' = "loop"
    /\ UNCHANGED <<table, detail_links, meta, tr, n_rows, tsv_text, tsv_case,
                   output, fetched, failed>>

\* the payload is fetched and parsed, and the record is saved
FetchTsv(resp) ==
    /\ pc = "fetch_tsv"
    /\ fetched' = Append(fetched, "tsv")
    /\ failed' = (failed \/ ~resp.ok)
    /\ IF RaisesForStatus(resp)
       THEN pc' = "raised" /\ UNCHANGED <<meta, tsv_text, tsv_case, results, i>>
       ELSE LET parsed == ParseTsv(meta, resp.text)
            IN  /\ tsv_text' = resp.text
                /\ tsv_case' = parsed.case
                /\ meta' = parsed.meta
                /\ results' = AppendRecord(results, parsed.meta)
                /\ i' = i + 1
                /\ pc' = "loop"
    /\ UNCHANGED <<table, detail_links, tr, n_rows, output>>

\* after the last link the results are written to the output file
WriteOutput ==
    /\ pc = "loop"
    /\ i > Len(detail_links)
    /\ output' = WrittenFile(results)
    /\ pc' = "done"
    /\ UNCHANGED <<table, detail_links, i, results, meta, tr, n_rows, tsv_text,
                   tsv_case, fetched, failed>>

(***************************************************************************)
(* The inputs of a whole run.                                              *)
(***************************************************************************)
SeqsUpTo(S, n) == UNION {[1..k -> S] : k \in 0..n}

Hrefs == {<<"a">>, <<"b">>}

\* catalog tables of flat cells with one link each
RunTables == {[k \in 1..Len(hs) |-> Td(<<Anchor(hs[k])>>)] : hs \in SeqsUpTo(Hrefs, MaxLinks)}

RunBrowse ==
    {BrowseResp(FALSE, FALSE, <<>>), BrowseResp(TRUE, FALSE, <<>>)}
    \cup {BrowseResp(TRUE, TRUE, t) : t \in RunTables}

RunDetail == {DetailResp(FALSE, FALSE), DetailResp(TRUE, FALSE), DetailResp(TRUE, TRUE)}

RunRows ==
    { Row(TRUE, <<<<"S", "t", "a", "n", "d", "a", "r", "d", " ", "n", "a", "m", "e">>>>, TRUE, <<<<"x">>>>, FALSE, <<>>),
      Row(TRUE, <<<<"M", "S", "I", "G", "D", "B", "_", "U", "R", "L">>>>, TRUE, <<<<"y">>>>, FALSE, <<>>) }

RunTsv ==
    { TsvResp(FALSE, <<>>),
      TsvResp(TRUE, <<>>),
      TsvResp(TRUE, <<" ", "\n", "\t">>),
      TsvResp(TRUE, <<"G", "E", "N", "E", "_", "S", "Y", "M", "B", "O", "L", "\t", "G", "E", "N", "E", "_", "I", "D", "\n", "A", "\t", "1", "\n">>),
      TsvResp(TRUE, <<"G", "E", "N", "E", "_", "S", "Y", "M", "B", "O", "L", "S", "\t", "A", ",", "B", "\n", "M", "S", "I", "G", "D", "B", "_", "U", "R", "L", "\t", "z", "\n", "F", "O", "O", "\t", "q", "\n">>) }

Next ==
    \/ pc = "start" /\ \E resp \in RunBrowse : FetchBrowse(resp)
    \/ pc = "loop" /\ \E resp \in RunDetail : FetchDetail(resp)
    \/ pc = "rows" /\ \E row \in RunRows : ProcessRow(row)
    \/ EndRows
    \/ \E has_link \in BOOLEAN : ResolveTsv(has_link)
    \/ pc = "fetch_tsv" /\ \E resp \in RunTsv : FetchTsv(resp)
    \/ WriteOutput

Spec == Init /\ [][Next]_vars

(***************************************************************************)
(* The link collector alone, on catalog tables whose cells hold anchors    *)
(* and nested cells.                                                       *)
(***************************************************************************)
\* children of one cell
MaxKids == 2
\* top-level cells of the catalog table
MaxCells == 2

LinkLeaves == {Anchor(h) : h \in Hrefs} \cup {AnchorNoHref}
InnerCells == {Td(kids) : kids \in SeqsUpTo(LinkLeaves, 1)}
OuterCells == {Td(kids) : kids \in SeqsUpTo(LinkLeaves \cup InnerCells, MaxKids)}
NestedTables == SeqsUpTo(OuterCells, MaxCells)

NextLinks == pc = "start" /\ \E t \in NestedTables : FetchBrowse(BrowseResp(TRUE, TRUE, t))

SpecLinks == Init /\ [][NextLinks]_vars

(***************************************************************************)
(* The metadata extractor alone: the state of a run that has fetched the   *)
(* detail page of its only link and found the attribute table, and then    *)
(* any sequence of at most MaxRows rows.                                   *)
(***************************************************************************)
OneLink == BaseUrl \o <<"a">>

InitRows ==
    /\ pc = "rows"
    /\ table = <<Td(<<Anchor(<<"a">>)>>)>>
    /\ detail_links = <<OneLink>>
    /\ i = 1
    /\ results = <<>>
    /\ meta = InitMeta(OneLink)
    /\ tr = NoRow
    /\ n_rows = 0
    /\ tsv_text = <<>>
    /\ tsv_case = "none"
    /\ output = NoOutput
    /\ fetched = <<"browse", "detail">>
    /\ failed = FALSE

\* the substrings the elif chain tests, in its order
LabelSubstrings ==
    << <<"s", "t", "a", "n", "d", "a", "r", "d", " ", "n", "a", "m", "e">>, <<"s", "y", "s", "t", "e", "m", "a", "t", "i", "c", " ", "n", "a", "m", "e">>, <<"c", "o", "l", "l", "e", "c", "t", "i", "o", "n">>,
       <<"i", "d", "e", "n", "t", "i", "f", "i", "e", "r", " ", "n", "a", "m", "e", "s", "p", "a", "c", "e">>, <<"s", "o", "u", "r", "c", "e", " ", "p", "l", "a", "t", "f", "o", "r", "m">>, <<"b", "r", "i", "e", "f", " ", "d", "e", "s", "c", "r", "i", "p", "t", "i", "o", "n">>,
       <<"f", "u", "l", "l", " ", "d", "e", "s", "c", "r", "i", "p", "t", "i", "o", "n">>, <<"s", "o", "u", "r", "c", "e", " ", "p", "u", "b", "l", "i", "c", "a", "t", "i", "o", "n">>, <<"e", "x", "a", "c", "t", " ", "s", "o", "u", "r", "c", "e">>,
       <<"f", "i", "l", "t", "e", "r", "e", "d", " ", "b", "y", " ", "s", "i", "m", "i", "l", "a", "r", "i", "t", "y">>, <<"e", "x", "t", "e", "r", "n", "a", "l", " ", "l", "i", "n", "k", "s">>, <<"c", "o", "n", "t", "r", "i", "b", "u", "t", "e", "d", " ", "b", "y">>,
       <<"f", "o", "u", "n", "d", "e", "r">> >>

UpperChar(c) ==
    IF \E k \in 1..Len(LowerLetters) : LowerLetters[k] = c
    THEN UpperLetters[CHOOSE k \in 1..Len(LowerLetters) : LowerLetters[k] = c]
    ELSE c

Capitalize(s) == <<UpperChar(Head(s))>> \o Tail(s) \o <<":">>

\* labels with one substring, with two substrings in either order, with none
Labels ==
    {Capitalize(LabelSubstrings[k]) : k \in 1..Len(LabelSubstrings)}
    \cup {LabelSubstrings[k] \o <<" ", "/", " ">> \o LabelSubstrings[k + 1] :
              k \in 1..(Len(LabelSubstrings) - 1)}
    \cup {LabelSubstrings[k + 1] \o <<" ", "/", " ">> \o LabelSubstrings[k] :
              k \in 1..(Len(LabelSubstrings) - 1)}
    \cup {<<"G", "E", "O", "I", "D">>, <<"E", "x", "t", "e", "r", "n", "a", "l", " ", "n", "a", "m", "e", "s", " ", "f", "o", "r", " ", "s", "i", "m", "i", "l", "a", "r", " ", "t", "e", "r", "m", "s">>, <<"D", "e", "s", "c", "r", "i", "p", "t", "i", "o", "n">>}

Values == {<<"x">>, <<"Y", " ", "(", "z", ")">>}

AllRows ==
    {Row(TRUE, <<l>>, TRUE, <<v>>, FALSE, <<>>) : l \in Labels, v \in Values}
    \cup { Row(FALSE, <<>>, TRUE, <<<<"x">>>>, FALSE, <<>>),
           Row(TRUE, <<<<"S", "t", "a", "n", "d", "a", "r", "d", " ", "n", "a", "m", "e">>>>, FALSE, <<>>, FALSE, <<>>),
           Row(TRUE, <<<<" ", "C", "o", "l", "l", "e", "c", "t", "i", "o", "n", "\n">>>>, TRUE, <<<<" ", "C", "2", ":", "\n", "c", "u", "r", "a", "t", "e", "d", " ">>, <<"\n">>, <<"C", "G", "P">>>>,
               FALSE, <<>>),
           Row(TRUE, <<<<"S", "o", "u", "r", "c", "e", " ", "p", "u", "b", "l", "i", "c", "a", "t", "i", "o", "n">>>>, TRUE,
               <<<<"P", "u", "b", "m", "e", "d", " ", "1", "2", "3">>, <<"A", "u", "t", "h", "o", "r", "s", ":", " ", "A", ",", "B">>>>, TRUE, <<" ", "P", "u", "b", "m", "e", "d", " ", "1", "2", "3", " ">>),
           Row(TRUE, <<<<"S", "o", "u", "r", "c", "e", " ", "p", "u", "b", "l", "i", "c", "a", "t", "i", "o", "n">>>>, TRUE, <<<<"n", "o", "n", "e">>>>, FALSE, <<>>) }

NextRows ==
    \/ pc = "rows" /\ n_rows < MaxRows /\ \E row \in AllRows : ProcessRow(row)
    \/ EndRows

SpecRows == InitRows /\ [][NextRows]_vars

(***************************************************************************)
(* The contributed by rule alone: rows labelled Contributed by, with every *)
(* value of at most MaxValueLen characters.                                *)
(***************************************************************************)
MaxValueLen == 3

ContribChars == {"a", SP, "(", ")"}

ContribRows ==
    {Row(TRUE, <<<<"C", "o", "n", "t", "r", "i", "b", "u", "t", "e", "d", " ", "b", "y">>>>, TRUE, <<v>>, FALSE, <<>>) :
        v \in SeqsUpTo(ContribChars, MaxValueLen)}

NextContrib ==
    \/ pc = "rows" /\ n_rows < MaxRows /\ \E row \in ContribRows : ProcessRow(row)
    \/ EndRows

SpecContrib == InitRows /\ [][NextContrib]_vars

(***************************************************************************)
(* The payload parser alone: the state of a run that is about to fetch the *)
(* payload of its only link, and then any payload of at most MaxLines      *)
(* lines.                                                                  *)
(***************************************************************************)
NameRow == Row(TRUE, <<<<"S", "t", "a", "n", "d", "a", "r", "d", " ", "n", "a", "m", "e">>>>, TRUE, <<<<"x">>>>, FALSE, <<>>)

InitTsv ==
    /\ pc = "fetch_tsv"
    /\ table = <<Td(<<Anchor(<<"a">>)>>)>>
    /\ detail_links = <<OneLink>>
    /\ i = 1
    /\ results = <<>>
    /\ meta = ApplyRow(InitMeta(OneLink), NameRow)
    /\ tr = NameRow
    /\ n_rows = 1
    /\ tsv_text = <<>>
    /\ tsv_case = "none"
    /\ output = NoOutput
    /\ fetched = <<"browse", "detail">>
    /\ failed = FALSE

TsvLineSet ==
    { <<>>,
      <<"G", "e", "n", "e", "_", "S", "y", "m", "b", "o", "l", "\t", "G", "E", "N", "E", "_", "I", "D">>,
      <<"G", "E", "N", "E", "_", "I", "D", "\t", "7">>,
      <<"A", "\t", "1">>,
      <<" ", "B", " ", "\t", " ", "2", " ", "\t", "x">>,
      <<"C">>,
      <<"\t", "D", "\t", "4">>,
      <<"E", "\t">>,
      <<"G", "E", "N", "E", "_", "S", "Y", "M", "B", "O", "L", "S", "\t", "A", ",", "B">>,
      <<"G", "E", "N", "E", "_", "S", "Y", "M", "B", "O", "L", "S", "\t", " ", "C", "\t", "D", " ">>,
      <<"S", "O", "U", "R", "C", "E", "_", "M", "E", "M", "B", "E", "R", "S", "\t", "1", ",", "2">>,
      <<" ", "G", "E", "N", "E", "_", "S", "Y", "M", "B", "O", "L", "S", " ", "\t", "E">>,
      <<"g", "e", "n", "e", "_", "s", "y", "m", "b", "o", "l", "s", "\t", "z">> }

AllTsv == {TsvResp(TRUE, Join(<<NL>>, ls)) : ls \in SeqsUpTo(TsvLineSet, MaxLines)}

NextTsv ==
    \/ pc = "fetch_tsv" /\ \E resp \in AllTsv : FetchTsv(resp)
    \/ WriteOutput

SpecTsv == InitTsv /\ [][NextTsv]_vars

(***************************************************************************)
(* Properties of the whole run (Spec).                                     *)
(***************************************************************************)
\* the position of MSIGDB_URL in fieldnames
UrlColumn == CHOOSE c \in 1..Len(fieldnames) : fieldnames[c] = "MSIGDB_URL"

InIteration == pc \in {"rows", "resolve_tsv", "fetch_tsv"}

\* C1: in a run in which no fetch fails, every iteration of the per-link loop
\* appends exactly one record: while link i is processed and between iterations
\* results holds the records of the i - 1 links before it, record j has the
\* MSIGDB_URL detail_links[j], and the file is written with one record per
\* detail link, in the order of the links, duplicates included.
C1_OneRecordPerLink ==
    ~failed =>
        /\ (pc = "loop" \/ InIteration) => Len(results) = i - 1
        /\ Len(results) <= Len(detail_links)
        /\ \A j \in 1..Len(results) : results[j]["MSIGDB_URL"] = detail_links[j]
        /\ pc = "done" =>
              /\ Len(results) = Len(detail_links)
              /\ Len(output.rows) = Len(detail_links)
              /\ \A j \in 1..Len(detail_links) :
                     output.rows[j][UrlColumn] = detail_links[j]

\* the run ended on a listing with the same link twice, the two records differ
C1_Witness ==
    /\ pc = "done"
    /\ ~failed
    /\ Len(detail_links) = 2
    /\ detail_links[1] = detail_links[2]
    /\ results[1] # results[2]
    /\ results[1]["GENE_SYMBOLS"] = <<>>
    /\ results[2]["GENE_SYMBOLS"] # <<>>

IsText(v) == v \in Seq(STRING)

IsRecord(m) ==
    /\ DOMAIN m = FieldSet
    /\ \A fn \in FieldSet : IsText(m[fn])

\* C2: every record appended to results, and the record under construction, has
\* exactly the 19 fields of fieldnames, each holding a text, and its MSIGDB_URL is
\* the detail link that produced it, whatever the labels of the attribute table
\* and the lines of the payload are; every written row has the 19 columns.
C2_RecordSchema ==
    /\ Cardinality(FieldSet) = 19
    /\ Len(fieldnames) = 19
    /\ \A j \in 1..Len(results) :
           IsRecord(results[j]) /\ results[j]["MSIGDB_URL"] = detail_links[j]
    /\ InIteration => IsRecord(meta) /\ meta["MSIGDB_URL"] = detail_links[i]
    /\ output.written =>
           /\ output.header = fieldnames
           /\ \A j \in 1..Len(output.rows) : Len(output.rows[j]) = 19

\* a record was appended after a row labelled MSIGDB_URL and a payload with a
\* line keyed MSIGDB_URL
C2_Witness ==
    /\ pc = "loop"
    /\ Len(results) = 1
    /\ tr.th_strings = <<<<"M", "S", "I", "G", "D", "B", "_", "U", "R", "L">>>>
    /\ tsv_case = "B"
    /\ In(<<"M", "S", "I", "G", "D", "B", "_", "U", "R", "L", "\t", "z">>, tsv_text)
    /\ results[1]["GENE_SYMBOLS"] = <<"A", ",", "B">>

Halted == pc \in {"raised", "returned"}

\* C3: the output file is written only at the end of a run in which no fetch
\* failed; a failed fetch halts the run at once and a missing catalog table ends
\* it, a halted run takes no further step and has written nothing, whatever was
\* collected before; and a run whose listing page has no catalog table has
\* fetched the listing page only.
C3_WriteOnlyAtEnd ==
    /\ [](output.written => pc = "done" /\ ~failed)
    /\ [](failed => pc = "raised")
    /\ [](Halted => ~output.written)
    /\ [](pc = "returned" => fetched = <<"browse">>)
    /\ [][~Halted]_vars

\* a fetch failed after a record was collected, and nothing is written
C3_Witness ==
    /\ pc = "raised"
    /\ Len(results) >= 1
    /\ fetched[Len(fetched)] = "tsv"
    /\ ~output.written

\* C8: when the fetched payload is empty or only whitespace, the step raises
\* nothing, GENE_SYMBOLS and SOURCE_MEMBERS are empty, every field of the record
\* is as the metadata extraction left it, the record is appended once, and the
\* run goes on to the next link.
C8_EmptyPayload ==
    [][(pc = "fetch_tsv" /\ ~failed' /\ Strip(tsv_text') = <<>>) =>
          /\ pc' = "loop"
          /\ i' = i + 1
          /\ meta' = meta
          /\ meta'["GENE_SYMBOLS"] = <<>>
          /\ meta'["SOURCE_MEMBERS"] = <<>>
          /\ results' = Append(results, meta)]_vars

\* a whitespace payload was parsed for the first of two links
C8_Witness ==
    /\ pc = "loop"
    /\ i = 2
    /\ Len(detail_links) = 2
    /\ tsv_text = <<" ", "\n", "\t">>
    /\ Len(results) = 1
    /\ results[1]["STANDARD_NAME"] = <<"x">>
    /\ results[1]["GENE_SYMBOLS"] = <<>>

(***************************************************************************)
(* Properties of the metadata extractor (SpecRows, SpecContrib).           *)
(***************************************************************************)
\* the rule table of the attribute rows: the substrings of a rule, the fields
\* it may set, and whether it stores the value as it is
Rule(subs, fields, verbatim) == [subs |-> subs, fields |-> fields, verbatim |-> verbatim]

RuleTable ==
    << Rule({<<"s", "t", "a", "n", "d", "a", "r", "d", " ", "n", "a", "m", "e">>}, {"STANDARD_NAME"}, TRUE),
       Rule({<<"s", "y", "s", "t", "e", "m", "a", "t", "i", "c", " ", "n", "a", "m", "e">>}, {"SYSTEMATIC_NAME"}, TRUE),
       Rule({<<"c", "o", "l", "l", "e", "c", "t", "i", "o", "n">>}, {"COLLECTION"}, FALSE),
       Rule({<<"i", "d", "e", "n", "t", "i", "f", "i", "e", "r", " ", "n", "a", "m", "e", "s", "p", "a", "c", "e">>, <<"s", "o", "u", "r", "c", "e", " ", "p", "l", "a", "t", "f", "o", "r", "m">>}, {"NAMESPACE"}, TRUE),
       Rule({<<"b", "r", "i", "e", "f", " ", "d", "e", "s", "c", "r", "i", "p", "t", "i", "o", "n">>}, {"DESCRIPTION_BRIEF"}, TRUE),
       Rule({<<"f", "u", "l", "l", " ", "d", "e", "s", "c", "r", "i", "p", "t", "i", "o", "n">>}, {"DESCRIPTION_FULL"}, TRUE),
       Rule({<<"s", "o", "u", "r", "c", "e", " ", "p", "u", "b", "l", "i", "c", "a", "t", "i", "o", "n">>}, {"PMID", "AUTHORS"}, FALSE),
       Rule({<<"e", "x", "a", "c", "t", " ", "s", "o", "u", "r", "c", "e">>}, {"EXACT_SOURCE"}, TRUE),
       Rule({<<"f", "i", "l", "t", "e", "r", "e", "d", " ", "b", "y", " ", "s", "i", "m", "i", "l", "a", "r", "i", "t", "y">>}, {"FILTERED_BY_SIMILARITY"}, TRUE),
       Rule({<<"e", "x", "t", "e", "r", "n", "a", "l", " ", "l", "i", "n", "k", "s">>}, {"EXTERNAL_DETAILS_URL"}, TRUE),
       Rule({<<"c", "o", "n", "t", "r", "i", "b", "u", "t", "e", "d", " ", "b", "y">>}, {"CONTRIBUTOR", "CONTRIBUTOR_ORG"}, FALSE),
       Rule({<<"f", "o", "u", "n", "d", "e", "r">>}, {"FOUNDER_NAMES"}, TRUE) >>

RuleMatches(k, label) == \E sub \in RuleTable[k].subs : In(sub, label)

MatchingRules(label) == {k \in 1..Len(RuleTable) : RuleMatches(k, label)}

LabelOf(row) == Lower(GetText(row.th_strings, <<>>))
ValueOf(row) == GetText(row.td_strings, <<SP>>)

\* the first rule the label of the row matches, 0 when the row has no label
\* cell or no value cell or its label matches no rule
FirstRule(row) ==
    IF ~row.has_th \/ ~row.has_td \/ MatchingRules(LabelOf(row)) = {} THEN 0
    ELSE Min(MatchingRules(LabelOf(row)))

\* C10: a step over one row changes no field but those of the first rule whose
\* substring the lower-cased label contains, in the order of the rule table, and
\* a first rule that stores the value as it is stores it; a row that has no label
\* cell or no value cell, or whose label matches no rule, changes no field; GEOID
\* and EXTERNAL_NAMES_FOR_SIMILAR_TERMS are empty after every sequence of rows.
C10_FirstRuleOnly ==
    /\ [][n_rows' = n_rows + 1 =>
             \A k \in {FirstRule(tr')}, value \in {ValueOf(tr')} :
                 \A fn \in FieldSet :
                     IF k = 0 \/ fn \notin RuleTable[k].fields
                     THEN meta'[fn] = meta[fn]
                     ELSE RuleTable[k].verbatim => meta'[fn] = value]_vars
    /\ [](meta["GEOID"] = <<>> /\ meta["EXTERNAL_NAMES_FOR_SIMILAR_TERMS"] = <<>>)

\* the second row of a page has a label with the substrings of two rules, the
\* later rule first in the label, and only the earlier rule has fired
C10_Witness ==
    /\ n_rows = 2
    /\ tr.th_strings = <<<<"s", "y", "s", "t", "e", "m", "a", "t", "i", "c", " ", "n", "a", "m", "e", " ", "/", " ", "s", "t", "a", "n", "d", "a", "r", "d", " ", "n", "a", "m", "e">>>>
    /\ MatchingRules(LabelOf(tr)) = {1, 2}
    /\ FirstRule(tr) = 1
    /\ meta["STANDARD_NAME"] = <<"Y", " ", "(", "z", ")">>
    /\ meta["SYSTEMATIC_NAME"] = <<>>
    /\ meta["FOUNDER_NAMES"] = <<"x">>

HasParen(value) == \E k \in 1..Len(value) : value[k] \in {"(", ")"}

\* the value is some text, an opening parenthesis, some text, and a closing
\* parenthesis that ends it
HasNameOrgShape(value) ==
    /\ value # <<>>
    /\ value[Len(value)] = ")"
    /\ \E k \in 1..(Len(value) - 1) : value[k] = "("

LastOpen(value) == Max({k \in 1..(Len(value) - 1) : value[k] = "("})

BeforeParen(value) == SubSeq(value, 1, LastOpen(value) - 1)
InsideParen(value) == SubSeq(value, LastOpen(value) + 1, Len(value) - 1)

Parsed == tsv_case # "none"

HasBothTokens(line) ==
    In(<<"g", "e", "n", "e", "_", "s", "y", "m", "b", "o", "l">>, Lower(line)) /\ In(<<"g", "e", "n", "e", "_", "i", "d">>, Lower(line))

\* the parts of a data line
PartsOf(line) == Split(Strip(line), TAB)

\* the data lines with at least two parts
TwoPartLines(lines) == SelectSeq(lines, LAMBDA l : Len(PartsOf(l)) >= 2)

\* the data lines with at least one part that is not empty
UsableLines(lines) ==
    SelectSeq(lines, LAMBDA l : Len(PartsOf(l)) >= 2 \/ PartsOf(l)[1] # <<>>)

PartOfEach(lines, n) == [k \in 1..Len(lines) |-> Strip(PartsOf(lines[k])[n])]

\* C5 as stated: the payload is parsed as row-based exactly when its first line
\* contains gene_symbol and gene_id, whatever their case, and as key-value
\* otherwise; in row-based mode the first line contributes to neither field.
C5_AsStated ==
    Parsed =>
        \A lines \in {Split(tsv_text, NL)} :
            /\ tsv_case \in {"A", "B"}
            /\ tsv_case = "A" <=> HasBothTokens(lines[1])
            /\ tsv_case = "A" =>
                  /\ meta["GENE_SYMBOLS"] =
                         Join(<<",">>, PartOfEach(TwoPartLines(Tail(lines)), 1))
                  /\ meta["SOURCE_MEMBERS"] =
                         Join(<<",">>, PartOfEach(TwoPartLines(Tail(lines)), 2))

\* C5 as amended: the payload is parsed as row-based exactly when the first line
\* of the payload stripped of its leading and trailing whitespace contains
\* gene_symbol and gene_id, whatever their case, and as key-value otherwise; in
\* row-based mode that line contributes to neither field.
C5_Amended ==
    Parsed =>
        \A lines \in {Split(Strip(tsv_text), NL)} :
            /\ tsv_case \in {"A", "B"}
            /\ tsv_case = "A" <=> HasBothTokens(lines[1])
            /\ tsv_case = "A" =>
                  /\ meta["GENE_SYMBOLS"] =
                         Join(<<",">>, PartOfEach(TwoPartLines(Tail(lines)), 1))
                  /\ meta["SOURCE_MEMBERS"] =
                         Join(<<",">>, PartOfEach(TwoPartLines(Tail(lines)), 2))

\* a payload that starts with a blank line was parsed as row-based, and its
\* header line is in neither field
C5_Witness ==
    /\ tsv_case = "A"
    /\ tsv_text[1] = NL
    /\ meta["GENE_SYMBOLS"] = <<"A">>
    /\ meta["SOURCE_MEMBERS"] = <<"1">>
    /\ ~HasBothTokens(Split(tsv_text, NL)[1])

\* C6 as stated: in row-based mode the identifiers are the trimmed first parts
\* of the data lines with at least one part, the values the trimmed second parts
\* of the data lines with at least two parts, lines without a usable part are
\* skipped, and the two fields are the comma joins in line order.
C6_AsStated ==
    tsv_case = "A" =>
        \A data \in {Tail(TsvLines(tsv_text))} :
            /\ meta["GENE_SYMBOLS"] = Join(<<",">>, PartOfEach(UsableLines(data), 1))
            /\ meta["SOURCE_MEMBERS"] = Join(<<",">>, PartOfEach(TwoPartLines(data), 2))

\* C6 as amended: in row-based mode the identifiers are the trimmed first parts
\* and the values the trimmed second parts of the data lines that, once
\* trimmed, have at least two tab-separated parts; a line with fewer parts, a
\* lone identifier included, contributes to neither; the two fields are the
\* comma joins in line order.
C6_Amended ==
    tsv_case = "A" =>
        \A data \in {Tail(TsvLines(tsv_text))} :
            /\ meta["GENE_SYMBOLS"] = Join(<<",">>, PartOfEach(TwoPartLines(data), 1))
            /\ meta["SOURCE_MEMBERS"] = Join(<<",">>, PartOfEach(TwoPartLines(data), 2))

\* a row-based payload with a lone identifier and a line of three parts
C6_Witness ==
    /\ tsv_case = "A"
    /\ \E ls \in {TsvLines(tsv_text)} :
           /\ Len(ls) = 3
           /\ ls[2] = <<"C">>
           /\ ls[3] = <<" ", "B", " ", "\t", " ", "2", " ", "\t", "x">>
    /\ meta["GENE_SYMBOLS"] = <<"B">>
    /\ meta["SOURCE_MEMBERS"] = <<"2">>

HasTab(line) == \E k \in 1..Len(line) : line[k] = TAB
FirstTab(line) == Min({k \in 1..Len(line) : line[k] = TAB})
KeyOf(line) == Strip(SubSeq(line, 1, FirstTab(line) - 1))
RemainderOf(line) == SubSeq(line, FirstTab(line) + 1, Len(line))

\* the lines keyed by key, and the last of them
KeyedLines(lines, key) == {k \in 1..Len(lines) : HasTab(lines[k]) /\ KeyOf(lines[k]) = key}

FieldKey(fn) == IF fn = "GENE_SYMBOLS" THEN <<"G", "E", "N", "E", "_", "S", "Y", "M", "B", "O", "L", "S">> ELSE <<"S", "O", "U", "R", "C", "E", "_", "M", "E", "M", "B", "E", "R", "S">>

\* C7 as stated: in key-value mode GENE_SYMBOLS and SOURCE_MEMBERS are the
\* remainders, as they are, of the last line whose trimmed key is exactly the
\* field name; without such a line the field, and in any case every other
\* field, is as it was.
C7_AsStated ==
    [][tsv_case' = "B" =>
          \A lines \in {TsvLines(tsv_text')} :
              \A fn \in FieldSet :
                  IF fn \in {"GENE_SYMBOLS", "SOURCE_MEMBERS"}
                     /\ KeyedLines(lines, FieldKey(fn)) # {}
                  THEN meta'[fn] =
                           RemainderOf(lines[Max(KeyedLines(lines, FieldKey(fn)))])
                  ELSE meta'[fn] = meta[fn]]_vars

\* C7 as amended: in key-value mode, over the lines of the payload stripped of
\* its leading and trailing whitespace, GENE_SYMBOLS and SOURCE_MEMBERS are the
\* remainders of the last line whose trimmed key is exactly the field name,
\* trimmed and otherwise as they are, commas and further tabs included; without
\* such a line the field, and in any case every other field, is as it was.
C7_Amended ==
    [][tsv_case' = "B" =>
          \A lines \in {TsvLines(tsv_text')} :
              \A fn \in FieldSet :
                  IF fn \in {"GENE_SYMBOLS", "SOURCE_MEMBERS"}
                     /\ KeyedLines(lines, FieldKey(fn)) # {}
                  THEN meta'[fn] =
                           Strip(RemainderOf(lines[Max(KeyedLines(lines, FieldKey(fn)))]))
                  ELSE meta'[fn] = meta[fn]]_vars

\* a key-value payload whose GENE_SYMBOLS remainder has a further tab and
\* surrounding blanks, after a line without a tab
C7_Witness ==
    /\ tsv_case = "B"
    /\ \E ls \in {TsvLines(tsv_text)} :
           /\ Len(ls) = 3
           /\ ls[1] = <<"C">>
           /\ ls[2] = <<"G", "E", "N", "E", "_", "S", "Y", "M", "B", "O", "L", "S", "\t", " ", "C", "\t", "D", " ">>
           /\ ls[3] = <<"S", "O", "U", "R", "C", "E", "_", "M", "E", "M", "B", "E", "R", "S", "\t", "1", ",", "2">>
    /\ meta["GENE_SYMBOLS"] = <<"C", "\t", "D">>
    /\ meta["SOURCE_MEMBERS"] = <<"1", ",", "2">>
    /\ meta["STANDARD_NAME"] = <<"x">>

(***************************************************************************)
(* Properties of the link collector (SpecLinks).                           *)
(***************************************************************************)
\* the anchors with an href that lie in a cell, each once, in document order
RECURSIVE CellHyperlinks(_, _)
CellHyperlinks(nodes, in_cell) ==
    IF nodes = <<>> THEN <<>>
    ELSE LET n == Head(nodes)
         IN  (IF n.tag = "a" /\ n.has_href /\ in_cell THEN <<n>> ELSE <<>>)
             \o CellHyperlinks(n.kids, in_cell \/ n.tag = "td")
             \o CellHyperlinks(Tail(nodes), in_cell)

\* C4: for a listing page with the catalog table, detail_links has one entry
\* per hyperlink of the cells of the table, in document order, each the base
\* location followed by the href of the hyperlink.
C4_OneLinkPerHyperlink ==
    pc = "loop" =>
        \A hl \in {CellHyperlinks(table, FALSE)} :
            detail_links = [k \in 1..Len(hl) |-> BaseUrl \o hl[k].href]

====
